---------------------------- MODULE Spec2Model ----------------------------
(***************************************************************************)
(* A model of the eval_brainscan reporting scripts.                        *)
(*                                                                         *)
(*   eval.py       scans one root directory: for every immediate           *)
(*                 subdirectory it selects the CSV file whose name does    *)
(*                 not contain "info", extracts the row with the best      *)
(*                 val_auroc and tracks the overall best.                  *)
(*   eval_mult.py  repeats that scan for a list of roots and averages the  *)
(*                 per-root bests.                                         *)
(*                                                                         *)
(* Conventions of the model.                                               *)
(*   - A file name is a sequence of one-character strings, so that         *)
(*     str.lower(), the substring test and glob's pattern match are        *)
(*     computed and not assumed.                                           *)
(*   - A score (an AUROC value) is a positive integer: the float scaled    *)
(*     by a fixed factor.  Only finite scores are modelled; the order and  *)
(*     the equality of floats are those of the integers.  A quotient of    *)
(*     floats is kept as an exact fraction (TrueDiv); rounding is not      *)
(*     modelled.                                                           *)
(*   - Python's None is None where the variable otherwise holds a name or  *)
(*     a record, and NoneNum where it otherwise holds a score (TLC         *)
(*     compares like with like); float('-inf') is NegInf, an integer below *)
(*     every score.                                                        *)
(*   - pandas' default RangeIndex is 0-based; row labels are 1-based here. *)
(*   - An entry of a root directory is named by os.listdir; names are      *)
(*     unique in a directory, and the k-th listed entry is named k.        *)
(***************************************************************************)
EXTENDS Integers, Sequences, FiniteSets, TLC

VARIABLES
    \* ---- find_csv_without_info, applied to one directory
    directory,      \* the listing of the directory: a sequence of file names
    csv_file,       \* what find_csv_without_info returned
    \* ---- process_csv_file, applied to one file
    df,             \* the content of the file at csv_path
    extracted,      \* what process_csv_file returned
    \* ---- the programs (eval.py: Spec, eval_mult.py: SpecMulti)
    pc,             \* the position of the program
    caller,         \* "main": the script is run; "import": its function
                    \* analyze_multiple_directories is called from outside
    argv,           \* the paths supplied (sys.argv[1:], or the argument of
                    \* the call): for each, whether it exists
    listing,        \* the entries os.listdir has yielded to the running scan
    results,        \* analyze_directory: results
    overall_best_val_auroc,
    overall_best_test_auroc,
    best_folder,
    best_file,
    stdout,         \* the warnings and errors printed by the running scan
    report,         \* eval.py: the OVERALL RESULTS section
    exit_status,    \* the status the process ended with (NoneNum before)
    \* ---- eval_mult.py only
    directory_list, \* analyze_multiple_directories: its argument
    i,              \* the number of roots of directory_list analysed
    returned,       \* for each analysed root: what analyze_directory found
                    \* there (root) and what it returned
    all_best_val_aurocs,
    all_best_test_aurocs,
    all_results,
    individual,     \* the lines of "Individual directory results"
    final           \* what analyze_multiple_directories returned

findVars == <<directory, csv_file>>
csvVars  == <<df, extracted>>
scanVars == <<listing, results, overall_best_val_auroc, overall_best_test_auroc,
              best_folder, best_file, stdout>>
progVars == <<pc, caller, argv, report, exit_status>>
multVars == <<directory_list, i, returned, all_best_val_aurocs,
              all_best_test_aurocs, all_results, individual, final>>
vars == <<findVars, csvVars, scanVars, progVars, multVars>>

----------------------------------------------------------------------------
(* Bounds of the model.                                                    *)

MaxFiles == 2
MaxScore == 2
MaxRows == 2
MaxEntries == 2
MaxArgs == 2

----------------------------------------------------------------------------
(* Python values.                                                          *)

None == <<>>
NoneNum == -1
NegInf == 0

RECURSIVE sum(_)
sum(xs) == IF xs = <<>> THEN 0 ELSE Head(xs) + sum(Tail(xs))

\* The builtin min: the first smallest item.
RECURSIVE min(_)
min(xs) ==
    IF Len(xs) = 1 THEN xs[1]
    ELSE LET m == min(SubSeq(xs, 1, Len(xs) - 1))
         IN  IF xs[Len(xs)] < m THEN xs[Len(xs)] ELSE m

\* The builtin max: the first largest item.
RECURSIVE max(_)
max(xs) ==
    IF Len(xs) = 1 THEN xs[1]
    ELSE LET m == max(SubSeq(xs, 1, Len(xs) - 1))
         IN  IF xs[Len(xs)] > m THEN xs[Len(xs)] ELSE m

\* a / b on floats, kept exact: the fraction a/b.
TrueDiv(a, b) == [num |-> a, den |-> b]

\* Equality of two fractions.
SameFraction(x, y) == x.num * y.den = y.num * x.den

----------------------------------------------------------------------------
(* File names.                                                             *)

UpperCase == <<"A","B","C","D","E","F","G","H","I","J","K","L","M",
               "N","O","P","Q","R","S","T","U","V","W","X","Y","Z">>
LowerCase == <<"a","b","c","d","e","f","g","h","i","j","k","l","m",
               "n","o","p","q","r","s","t","u","v","w","x","y","z">>

\* str.lower()
lower(s) ==
    [k \in 1..Len(s) |->
        IF \E j \in 1..Len(UpperCase) : UpperCase[j] = s[k]
        THEN LowerCase[CHOOSE j \in 1..Len(UpperCase) : UpperCase[j] = s[k]]
        ELSE s[k]]

\* sub in s
In(sub, s) ==
    \E k \in 0..(Len(s) - Len(sub)) : SubSeq(s, k + 1, k + Len(sub)) = sub

\* s.endswith(suffix)
EndsWith(s, suffix) ==
    /\ Len(s) >= Len(suffix)
    /\ SubSeq(s, Len(s) - Len(suffix) + 1, Len(s)) = suffix

INFO == <<"i","n","f","o">>
DOT_CSV == <<".","c","s","v">>

\* The file names of the model.
RunCsv     == <<"r","u","n",".","c","s","v">>
LogCsv     == <<"l","o","g",".","c","s","v">>
InfoCsv    == <<"i","n","f","o",".","c","s","v">>
RunINFOCsv == <<"r","u","n","_","I","N","F","O",".","c","s","v">>
MyInfoCsv  == <<"m","y","I","n","f","o","2",".","c","s","v">>
HiddenCsv  == <<".","r","u","n",".","c","s","v">>
RunTxt     == <<"r","u","n",".","t","x","t">>
RunCsvBak  == <<"r","u","n",".","c","s","v",".","b","a","k">>

FileNames ==
    {RunCsv, LogCsv, InfoCsv, RunINFOCsv, MyInfoCsv, HiddenCsv, RunTxt,
     RunCsvBak}

\* The sequences over S of length at most n.
RECURSIVE SeqsUpTo(_, _)
SeqsUpTo(S, n) ==
    IF n = 0 THEN {<<>>}
    ELSE LET shorter == SeqsUpTo(S, n - 1)
         IN  shorter \cup
             {Append(l, x) : l \in {s \in shorter : Len(s) = n - 1}, x \in S}

\* The listings of a directory whose names are taken from S: a directory
\* holds no name twice.
Listings(S, n) ==
    {l \in SeqsUpTo(S, n) : \A a, b \in 1..Len(l) : l[a] = l[b] => a = b}

----------------------------------------------------------------------------
(* find_csv_without_info                                                   *)

\* glob.glob(os.path.join(directory, "*.csv")) on a listing: the names that
\* match the pattern, in listing order.  The match is that of a POSIX file
\* system, where it is case-sensitive.  A name that begins with "." is
\* matched only by a pattern that begins with "." (glob's rule for hidden
\* files), so "*.csv" never yields it.
glob_csv(names) ==
    SelectSeq(names, LAMBDA n : EndsWith(n, DOT_CSV) /\ n[1] # ".")

\* A variant of has_info that forgets lower(): "info" in filename.
has_info_case_sensitive(filename) == In(INFO, filename)

\* "info" in filename.lower()
has_info(filename) == In(INFO, lower(filename))

\* The for loop: the first csv_file with "info" not in filename.lower().
RECURSIVE first_without_info(_)
first_without_info(csv_files) ==
    IF csv_files = <<>> THEN None
    ELSE IF ~has_info(Head(csv_files)) THEN Head(csv_files)
    ELSE first_without_info(Tail(csv_files))

find_csv_without_info(names) == first_without_info(glob_csv(names))

----------------------------------------------------------------------------
(* process_csv_file                                                        *)

\* The content of a file as pd.read_csv sees it: whether it parses, the
\* columns of its header, and its rows.
VAL_AUROC == "val_auroc"
TEST_AUROC == "test_auroc"
Scores == 1..MaxScore
Rows == [val_auroc : Scores, test_auroc : Scores]

\* A variant of idxmax that returns the label of the last occurrence of the
\* maximum.
RECURSIVE idxmax_last(_)
idxmax_last(column) ==
    IF Len(column) = 1 THEN 1
    ELSE LET k == idxmax_last(SubSeq(column, 1, Len(column) - 1))
         IN  IF column[Len(column)] >= column[k] THEN Len(column) ELSE k

\* Series.idxmax(): the label of the first occurrence of the maximum.  It
\* raises ValueError on an empty column (idxmax is used on rows # <<>>).
RECURSIVE idxmax(_)
idxmax(column) ==
    IF Len(column) = 1 THEN 1
    ELSE LET k == idxmax(SubSeq(column, 1, Len(column) - 1))
         IN  IF column[Len(column)] > column[k] THEN Len(column) ELSE k

\* process_csv_file(csv_path), for the table t at csv_path.  "out" is the line
\* it prints: "Warning" (required columns not found), "Error" (the except
\* branch: read_csv or idxmax raised) or nothing.
process_csv_file(t) ==
    IF ~t.parses
    THEN [val_auroc |-> NoneNum, test_auroc |-> NoneNum, out |-> "Error"]
    ELSE IF VAL_AUROC \notin t.columns \/ TEST_AUROC \notin t.columns
    THEN [val_auroc |-> NoneNum, test_auroc |-> NoneNum, out |-> "Warning"]
    ELSE IF t.rows = <<>>
    THEN [val_auroc |-> NoneNum, test_auroc |-> NoneNum, out |-> "Error"]
    ELSE LET max_val_auroc_idx ==
                 idxmax([k \in 1..Len(t.rows) |-> t.rows[k].val_auroc])
         IN  [val_auroc |-> t.rows[max_val_auroc_idx].val_auroc,
              test_auroc |-> t.rows[max_val_auroc_idx].test_auroc,
              out |-> ""]

----------------------------------------------------------------------------
(* The file system the programs read.                                      *)

\* A table as read_csv loads it.
Table(parses, columns, rows) ==
    [parses |-> parses, columns |-> columns, rows |-> rows]

BothColumns == {"epoch", VAL_AUROC, TEST_AUROC}
Unparsable == Table(FALSE, {}, <<>>)
NoTestColumn ==
    Table(TRUE, {"epoch", VAL_AUROC},
          <<[val_auroc |-> MaxScore, test_auroc |-> MaxScore]>>)
NoValColumn ==
    Table(TRUE, {"epoch", TEST_AUROC},
          <<[val_auroc |-> MaxScore, test_auroc |-> MaxScore]>>)
HeaderOnly == Table(TRUE, BothColumns, <<>>)

\* The tables process_csv_file is applied to on its own.
Tables ==
    {Unparsable}
    \cup {Table(TRUE, c, r) :
            c \in {{"epoch", VAL_AUROC}, {"epoch", TEST_AUROC}, BothColumns},
            r \in SeqsUpTo(Rows, MaxRows)}

File(name, table) == [name |-> name, table |-> table]

\* A side file of metadata: its table would win every comparison if it were
\* the one selected.
InfoFile ==
    File(InfoCsv, Table(TRUE, BothColumns,
                        <<[val_auroc |-> MaxScore + 1, test_auroc |-> MaxScore + 1]>>))

\* An entry of a root directory, as os.listdir yields it: a plain file, or a
\* subdirectory with the files glob lists in it.
PlainFile == [isdir |-> FALSE, files |-> <<>>]
Folder(files) == [isdir |-> TRUE, files |-> files]

\* The entries eval.py's scan is run on: a plain file, an empty folder, a
\* folder with only an "info" table, and folders with an "info" table before a
\* result table that is unparsable, lacks a column, has no row, or has one row.
ScanTables ==
    {Unparsable, NoTestColumn, NoValColumn, HeaderOnly}
    \cup {Table(TRUE, BothColumns, <<r>>) : r \in Rows}

Entries ==
    {PlainFile, Folder(<<>>), Folder(<<InfoFile>>)}
    \cup {Folder(<<InfoFile, File(RunCsv, t)>>) : t \in ScanTables}

\* The entries eval_mult.py's scans are run on: a folder with only an "info"
\* table, which is skipped, and two folders with a result table.
FolderA ==
    Folder(<<File(LogCsv, Table(TRUE, BothColumns,
                                <<[val_auroc |-> 81, test_auroc |-> 79]>>))>>)
FolderB ==
    Folder(<<InfoFile,
             File(RunCsv, Table(TRUE, BothColumns,
                                <<[val_auroc |-> 80, test_auroc |-> 90],
                                  [val_auroc |-> 85, test_auroc |-> 77]>>))>>)

MultiEntries == {Folder(<<InfoFile>>), FolderA, FolderB}

\* os.listdir names the entry it yields k-th.
Named(e, k) == [folder_name |-> k, isdir |-> e.isdir, files |-> e.files]

\* The file of the folder that has the given name.
FileNamed(files, name) ==
    files[CHOOSE k \in 1..Len(files) : files[k].name = name]

FileNamesOf(files) == [k \in 1..Len(files) |-> files[k].name]

----------------------------------------------------------------------------
(* analyze_directory: the body of the loop over os.listdir(root_directory) *)

\* The local variables of analyze_directory as one record.
Locals ==
    [results |-> results,
     overall_best_val_auroc |-> overall_best_val_auroc,
     overall_best_test_auroc |-> overall_best_test_auroc,
     best_folder |-> best_folder,
     best_file |-> best_file,
     stdout |-> stdout]

\* Their values before the loop.
InitialLocals ==
    [results |-> <<>>,
     overall_best_val_auroc |-> NegInf,
     overall_best_test_auroc |-> NoneNum,
     best_folder |-> NoneNum,
     best_file |-> None,
     stdout |-> <<>>]

\* A variant of skip_no_csv that also records the folder, with no file and
\* no scores, in results.
skip_no_csv_recorded(loc, e) ==
    [loc EXCEPT !.stdout =
         Append(@, [text |-> "Warning: No CSV file without 'info'",
                    folder |-> e.folder_name, file |-> None]),
                !.results =
         Append(@, [folder |-> e.folder_name, file |-> None,
                    val_auroc |-> NoneNum, test_auroc |-> NoneNum])]

\* if csv_file is None: the warning, and continue.
skip_no_csv(loc, e) ==
    [loc EXCEPT !.stdout =
         Append(@, [text |-> "Warning: No CSV file without 'info'",
                    folder |-> e.folder_name, file |-> None])]

\* A variant of is_overall_best with >= for >: a tie replaces the best.
is_overall_best_or_equal(val_auroc, loc) ==
    val_auroc >= loc.overall_best_val_auroc

\* if val_auroc > overall_best_val_auroc
is_overall_best(val_auroc, loc) == val_auroc > loc.overall_best_val_auroc

\* One iteration of the loop, for the entry e (named e.folder_name), from the
\* locals loc: the locals after it.
scan_entry(loc, e) ==
    IF ~e.isdir THEN loc                               \* not a directory
    ELSE LET selected == find_csv_without_info(FileNamesOf(e.files))
         IN
         IF selected = None THEN skip_no_csv(loc, e)
         ELSE
         LET got == process_csv_file(FileNamed(e.files, selected).table)
             val_auroc == got.val_auroc
             test_auroc == got.test_auroc
             printed ==
                 IF got.out = "" THEN loc.stdout
                 ELSE Append(loc.stdout, [text |-> got.out,
                                          folder |-> e.folder_name,
                                          file |-> selected])
         IN
         IF val_auroc # NoneNum /\ test_auroc # NoneNum
         THEN LET appended ==
                      Append(loc.results,
                             [folder |-> e.folder_name, file |-> selected,
                              val_auroc |-> val_auroc,
                              test_auroc |-> test_auroc])
              IN  IF is_overall_best(val_auroc, loc)
                  THEN [results |-> appended,
                        overall_best_val_auroc |-> val_auroc,
                        overall_best_test_auroc |-> test_auroc,
                        best_folder |-> e.folder_name,
                        best_file |-> selected,
                        stdout |-> printed]
                  ELSE [loc EXCEPT !.results = appended, !.stdout = printed]
         ELSE [loc EXCEPT !.stdout = printed]

\* The loop run over a whole listing.
RECURSIVE scan(_)
scan(entries) ==
    IF entries = <<>> THEN InitialLocals
    ELSE scan_entry(scan(SubSeq(entries, 1, Len(entries) - 1)),
                    entries[Len(entries)])

\* The locals become loc.
SetLocals(loc) ==
    /\ results' = loc.results
    /\ overall_best_val_auroc' = loc.overall_best_val_auroc
    /\ overall_best_test_auroc' = loc.overall_best_test_auroc
    /\ best_folder' = loc.best_folder
    /\ best_file' = loc.best_file
    /\ stdout' = loc.stdout

----------------------------------------------------------------------------
(* The variables a specification does not use keep these values.           *)

FindIdle == directory = <<>> /\ csv_file = None
CsvIdle == df = Unparsable /\ extracted = None
ScanStart ==
    /\ listing = <<>>
    /\ results = InitialLocals.results
    /\ overall_best_val_auroc = InitialLocals.overall_best_val_auroc
    /\ overall_best_test_auroc = InitialLocals.overall_best_test_auroc
    /\ best_folder = InitialLocals.best_folder
    /\ best_file = InitialLocals.best_file
    /\ stdout = InitialLocals.stdout
ProgIdle ==
    caller = "main" /\ argv = <<>> /\ report = None /\ exit_status = NoneNum
MultIdle ==
    /\ directory_list = <<>>
    /\ i = 0
    /\ returned = <<>>
    /\ all_best_val_aurocs = <<>>
    /\ all_best_test_aurocs = <<>>
    /\ all_results = <<>>
    /\ individual = <<>>
    /\ final = None

----------------------------------------------------------------------------
(* SpecFind: find_csv_without_info applied to a directory.                 *)

InitFind ==
    /\ pc = "find"
    /\ directory \in Listings(FileNames, MaxFiles)
    /\ csv_file = None
    /\ CsvIdle /\ ScanStart /\ ProgIdle /\ MultIdle

Find ==
    /\ pc = "find"
    /\ csv_file' = find_csv_without_info(directory)
    /\ pc' = "found"
    /\ UNCHANGED <<directory, caller, argv, report, exit_status, csvVars, scanVars,
                   multVars>>

NextFind == Find

SpecFind == InitFind /\ [][NextFind]_vars

----------------------------------------------------------------------------
(* SpecCsv: process_csv_file applied to a file.                            *)

InitCsv ==
    /\ pc = "process"
    /\ df \in Tables
    /\ extracted = None
    /\ FindIdle /\ ScanStart /\ ProgIdle /\ MultIdle

Process ==
    /\ pc = "process"
    /\ extracted' = process_csv_file(df)
    /\ pc' = "processed"
    /\ UNCHANGED <<df, caller, argv, report, exit_status, findVars, scanVars,
                   multVars>>

NextCsv == Process

SpecCsv == InitCsv /\ [][NextCsv]_vars

----------------------------------------------------------------------------
(* Spec: eval.py                                                           *)

Init ==
    /\ pc = "main"
    /\ caller = "main"
    /\ argv \in SeqsUpTo(BOOLEAN, MaxArgs)
    /\ report = None
    /\ exit_status = NoneNum
    /\ ScanStart /\ FindIdle /\ CsvIdle /\ MultIdle

\* main: len(sys.argv) != 2, the usage line and sys.exit(1).
Usage ==
    /\ pc = "main"
    /\ Len(argv) + 1 # 2
    /\ exit_status' = 1
    /\ pc' = "exit"
    /\ UNCHANGED <<caller, argv, report, findVars, csvVars, scanVars, multVars>>

\* analyze_directory: the root does not exist; it prints the error and
\* returns, main returns and the interpreter exits with status 0.
MissingRoot ==
    /\ pc = "main"
    /\ Len(argv) + 1 = 2
    /\ ~argv[1]
    /\ stdout' = Append(stdout, [text |-> "Error: Directory does not exist.",
                                 folder |-> NoneNum, file |-> None])
    /\ exit_status' = 0
    /\ pc' = "exit"
    /\ UNCHANGED <<caller, argv, report, listing, results, overall_best_val_auroc,
                   overall_best_test_auroc, best_folder, best_file,
                   findVars, csvVars, multVars>>

\* analyze_directory: the root exists; the locals are initialised.
EnterDirectory ==
    /\ pc = "main"
    /\ Len(argv) + 1 = 2
    /\ argv[1]
    /\ listing' = <<>>
    /\ SetLocals(InitialLocals)
    /\ pc' = "scan"
    /\ UNCHANGED <<caller, argv, report, exit_status, findVars, csvVars, multVars>>

\* One iteration of the loop over os.listdir: the next entry is one of E.
ScanEntry(E) ==
    /\ pc = "scan"
    /\ Len(listing) < MaxEntries
    /\ \E e \in E :
          LET entry == Named(e, Len(listing) + 1)
          IN  /\ listing' = Append(listing, entry)
              /\ SetLocals(scan_entry(Locals, entry))
    /\ UNCHANGED <<progVars, findVars, csvVars, multVars>>

\* A variant of has_overall_best that tests the running best val_auroc, which
\* starts at -inf and is never None.
has_overall_best_val == overall_best_val_auroc # NoneNum

\* if overall_best_test_auroc is not None
has_overall_best == overall_best_test_auroc # NoneNum

\* The loop is over: the OVERALL RESULTS section, return results; main
\* returns and the interpreter exits with status 0.
Overall ==
    /\ pc = "scan"
    /\ report' =
         IF has_overall_best
         THEN [text |-> "Overall best val_auroc",
               val_auroc |-> overall_best_val_auroc,
               test_auroc |-> overall_best_test_auroc,
               folder |-> best_folder,
               file |-> best_file]
         ELSE [text |-> "No valid results found."]
    /\ exit_status' = 0
    /\ pc' = "exit"
    /\ UNCHANGED <<caller, argv, findVars, csvVars, scanVars, multVars>>

Next ==
    \/ Usage
    \/ MissingRoot
    \/ EnterDirectory
    \/ ScanEntry(Entries)
    \/ Overall

Spec == Init /\ [][Next]_vars

----------------------------------------------------------------------------
(* SpecMulti: eval_mult.py                                                 *)
(*                                                                         *)
(* A supplied path is named by its position in argv.  The script is run    *)
(* with the paths as its arguments (caller = "main"), or its function      *)
(* analyze_multiple_directories is called with them by a program that      *)
(* imports the module (caller = "import").                                 *)

InitMulti ==
    /\ caller \in {"main", "import"}
    /\ pc = IF caller = "main" THEN "main" ELSE "call"
    /\ argv \in SeqsUpTo(BOOLEAN, MaxArgs)
    /\ report = None
    /\ exit_status = NoneNum
    /\ ScanStart /\ FindIdle /\ CsvIdle /\ MultIdle

\* main: len(sys.argv) < 2, the usage lines and sys.exit(1).
UsageMulti ==
    /\ pc = "main"
    /\ Len(argv) + 1 < 2
    /\ exit_status' = 1
    /\ pc' = "exit"
    /\ UNCHANGED <<caller, argv, report, findVars, csvVars, scanVars, multVars>>

\* main: the supplied paths that exist, in the order supplied.
valid_directories ==
    SelectSeq([k \in 1..Len(argv) |-> k], LAMBDA k : argv[k])

\* main: no supplied path exists, the error line and sys.exit(1).
NoValidDirectories ==
    /\ pc = "main"
    /\ Len(argv) + 1 >= 2
    /\ valid_directories = <<>>
    /\ exit_status' = 1
    /\ pc' = "exit"
    /\ UNCHANGED <<caller, argv, report, findVars, csvVars, scanVars, multVars>>

\* analyze_multiple_directories(dirs) initialises its lists.
EnterMulti(dirs) ==
    /\ directory_list' = dirs
    /\ i' = 0
    /\ all_best_val_aurocs' = <<>>
    /\ all_best_test_aurocs' = <<>>
    /\ all_results' = <<>>
    /\ pc' = "loop"
    /\ UNCHANGED <<caller, argv, report, exit_status, returned, individual,
                   final, findVars, csvVars, scanVars>>

\* main calls analyze_multiple_directories(valid_directories).
StartMulti ==
    /\ pc = "main"
    /\ valid_directories # <<>>
    /\ EnterMulti(valid_directories)

\* An importing program calls analyze_multiple_directories with the paths.
CallMulti ==
    /\ pc = "call"
    /\ EnterMulti([k \in 1..Len(argv) |-> k])

\* A variant of extend that puts the new items first.
extend_front(list, items) == items \o list

\* all_results.extend(results)
extend(list, items) == list \o items

\* The body of the loop of analyze_multiple_directories once
\* analyze_directory has returned ret = (best_val, best_test, results) for the
\* root it found as root.
AfterAnalyze(root, ret) ==
    /\ returned' = Append(returned, [root |-> root, best_val |-> ret.best_val,
                                     best_test |-> ret.best_test,
                                     results |-> ret.results])
    /\ IF ret.best_val # NoneNum /\ ret.best_test # NoneNum
       THEN /\ all_best_val_aurocs' = Append(all_best_val_aurocs, ret.best_val)
            /\ all_best_test_aurocs' = Append(all_best_test_aurocs, ret.best_test)
            /\ all_results' = extend(all_results, ret.results)
       ELSE UNCHANGED <<all_best_val_aurocs, all_best_test_aurocs, all_results>>
    /\ i' = i + 1

\* analyze_directory finds that the root does not exist and returns
\* None, None, [].
RootMissing ==
    /\ pc = "loop"
    /\ i < Len(directory_list)
    /\ ~argv[directory_list[i + 1]]
    /\ AfterAnalyze([exists |-> FALSE, entries |-> <<>>],
                    [best_val |-> NoneNum, best_test |-> NoneNum,
                     results |-> <<>>])
    /\ UNCHANGED <<pc, caller, argv, report, exit_status, directory_list,
                   individual, final, findVars, csvVars, scanVars>>

\* analyze_directory finds the root and initialises its locals.
EnterRoot ==
    /\ pc = "loop"
    /\ i < Len(directory_list)
    /\ argv[directory_list[i + 1]]
    /\ listing' = <<>>
    /\ SetLocals(InitialLocals)
    /\ pc' = "scan"
    /\ UNCHANGED <<caller, argv, report, exit_status, findVars, csvVars, multVars>>

\* What analyze_directory returns when its loop is over.
analyze_directory_return ==
    IF has_overall_best
    THEN [best_val |-> overall_best_val_auroc,
          best_test |-> overall_best_test_auroc,
          results |-> results]
    ELSE [best_val |-> NoneNum, best_test |-> NoneNum, results |-> results]

\* The loop of analyze_directory is over: it returns to
\* analyze_multiple_directories.
LeaveRoot ==
    /\ pc = "scan"
    /\ AfterAnalyze([exists |-> TRUE, entries |-> listing],
                    analyze_directory_return)
    /\ pc' = "loop"
    /\ UNCHANGED <<caller, argv, report, exit_status, directory_list,
                   individual, final, findVars, csvVars, scanVars>>

\* if all_best_val_aurocs:
has_valid_results == all_best_val_aurocs # <<>>

\* A variant of avg_val_auroc that divides by the number of roots supplied.
avg_val_auroc_over_supplied ==
    TrueDiv(sum(all_best_val_aurocs), Len(directory_list))

avg_val_auroc == TrueDiv(sum(all_best_val_aurocs), Len(all_best_val_aurocs))
avg_test_auroc == TrueDiv(sum(all_best_test_aurocs), Len(all_best_test_aurocs))

\* The lines of "Individual directory results": for i, directory in
\* enumerate(directory_list), if i < len(all_best_val_aurocs).
individual_lines ==
    LET shown == {k \in 1..Len(directory_list) : k - 1 < Len(all_best_val_aurocs)}
    IN  [k \in 1..Cardinality(shown) |->
            [directory |-> directory_list[k],
             val_auroc |-> all_best_val_aurocs[k],
             test_auroc |-> all_best_test_aurocs[k]]]

\* A variant of no_results that reports zero averages.
zero_results ==
    [avg_val |-> TrueDiv(0, 1), avg_test |-> TrueDiv(0, 1), all_results |-> <<>>]

\* return None, None, []
no_results == [avg_val |-> None, avg_test |-> None, all_results |-> <<>>]

\* The loop of analyze_multiple_directories is over: the overall section and
\* the return.  Called by main, main prints the final averages when there are
\* any and returns, and the interpreter exits with status 0.
Summarize ==
    /\ pc = "loop"
    /\ i = Len(directory_list)
    /\ IF has_valid_results
       THEN /\ report' =
                 [text |-> "Number of directories processed",
                  processed |-> Len(directory_list),
                  valid |-> Len(all_best_val_aurocs),
                  avg_val |-> avg_val_auroc,
                  avg_test |-> avg_test_auroc,
                  val_min |-> min(all_best_val_aurocs),
                  val_max |-> max(all_best_val_aurocs),
                  test_min |-> min(all_best_test_aurocs),
                  test_max |-> max(all_best_test_aurocs)]
            /\ individual' = individual_lines
            /\ final' = [avg_val |-> avg_val_auroc,
                         avg_test |-> avg_test_auroc,
                         all_results |-> all_results]
       ELSE /\ report' = [text |-> "No valid results found in any directory."]
            /\ individual' = <<>>
            /\ final' = no_results
    /\ IF caller = "main"
       THEN exit_status' = 0 /\ pc' = "exit"
       ELSE exit_status' = exit_status /\ pc' = "returned"
    /\ UNCHANGED <<caller, argv, directory_list, i, returned, all_best_val_aurocs,
                   all_best_test_aurocs, all_results, findVars, csvVars,
                   scanVars>>

NextMulti ==
    \/ UsageMulti
    \/ NoValidDirectories
    \/ StartMulti
    \/ CallMulti
    \/ RootMissing
    \/ EnterRoot
    \/ ScanEntry(MultiEntries)
    \/ LeaveRoot
    \/ Summarize

SpecMulti == InitMulti /\ [][NextMulti]_vars

----------------------------------------------------------------------------
(* Claims about find_csv_without_info (under SpecFind).                    *)

\* The name ends with the extension ".csv".
HasCsvExtension(n) ==
    /\ Len(n) >= 4
    /\ n[Len(n) - 3] = "." /\ n[Len(n) - 2] = "c"
    /\ n[Len(n) - 1] = "s" /\ n[Len(n)] = "v"

\* The name contains "info" in some mix of letter cases.
ContainsInfoAnyCase(n) ==
    \E k \in 1..(Len(n) - 3) :
        /\ n[k] \in {"i", "I"} /\ n[k + 1] \in {"n", "N"}
        /\ n[k + 2] \in {"f", "F"} /\ n[k + 3] \in {"o", "O"}

\* The result is the first name of the listing at one of the positions Q, and
\* None exactly when there is none.
ReturnsFirstOf(Q) ==
    IF Q = {} THEN csv_file = None
    ELSE csv_file = directory[CHOOSE k \in Q : \A j \in Q : k <= j]

\* C7 as stated: find_csv_without_info returns the first file in listing order
\* that has the .csv extension and whose name does not contain "info" in any
\* letter case, and None exactly when the directory holds no such file.
C7_AsStated ==
    pc = "found" =>
        ReturnsFirstOf({k \in 1..Len(directory) :
                          /\ HasCsvExtension(directory[k])
                          /\ ~ContainsInfoAnyCase(directory[k])})

\* C7 amended: find_csv_without_info returns the first file in listing order
\* that has the .csv extension, whose name does not begin with "." (glob's
\* "*.csv" does not list hidden files) and does not contain "info" in any
\* letter case, and None exactly when the directory holds no such file; it
\* never returns a file whose name contains "info" in any letter case.
C7_FirstVisibleCsvWithoutInfo ==
    pc = "found" =>
        /\ ReturnsFirstOf({k \in 1..Len(directory) :
                             /\ HasCsvExtension(directory[k])
                             /\ directory[k][1] # "."
                             /\ ~ContainsInfoAnyCase(directory[k])})
        /\ csv_file # None => ~ContainsInfoAnyCase(csv_file)

\* A directory whose first file is an "INFO" file in upper case and whose
\* second file is the one returned.
C7_Witness ==
    /\ pc = "found"
    /\ Len(directory) = 2
    /\ directory[1] = RunINFOCsv
    /\ csv_file = directory[2]

----------------------------------------------------------------------------
(* Claims about process_csv_file (under SpecCsv).                          *)

HasBothColumnsAndARow(t) ==
    /\ t.parses
    /\ VAL_AUROC \in t.columns /\ TEST_AUROC \in t.columns
    /\ t.rows # <<>>

\* The largest val_auroc of the rows.
MaxValAuroc(rows) ==
    CHOOSE v \in {rows[k].val_auroc : k \in 1..Len(rows)} :
        \A k \in 1..Len(rows) : rows[k].val_auroc <= v

\* The first row, in row order, whose val_auroc is v.
FirstRowWith(rows, v) ==
    CHOOSE k \in 1..Len(rows) :
        /\ rows[k].val_auroc = v
        /\ \A j \in 1..(k - 1) : rows[j].val_auroc # v

\* C2: for a table with both columns and at least one row, process_csv_file
\* returns the maximum of the val_auroc column and the test_auroc of the first
\* row whose val_auroc is that maximum.
C2_BestRowPaired ==
    (pc = "processed" /\ HasBothColumnsAndARow(df)) =>
        LET v == MaxValAuroc(df.rows)
        IN  /\ extracted.val_auroc = v
            /\ extracted.test_auroc = df.rows[FirstRowWith(df.rows, v)].test_auroc

\* Two rows tie on the maximum val_auroc and the later one has the larger
\* test_auroc: the first is selected, and its test_auroc is not the maximum of
\* the test_auroc column.
C2_Witness ==
    /\ pc = "processed"
    /\ HasBothColumnsAndARow(df)
    /\ Len(df.rows) = 2
    /\ df.rows[1].val_auroc = df.rows[2].val_auroc
    /\ df.rows[1].test_auroc < df.rows[2].test_auroc
    /\ extracted.test_auroc = df.rows[1].test_auroc

----------------------------------------------------------------------------
(* Claims about analyze_directory (under Spec, eval.py).                   *)

\* What a folder with the given files yields: the file selected in it and the
\* metric pair extracted from that file.
YieldOf(files) ==
    LET selected == find_csv_without_info(FileNamesOf(files))
    IN  [selected |-> selected,
         pair |-> IF selected = None
                  THEN [val_auroc |-> NoneNum, test_auroc |-> NoneNum]
                  ELSE process_csv_file(FileNamed(files, selected).table)]

\* YieldOf, tabulated for the folders of the model.
Yields == [files \in {e.files : e \in Entries \cup MultiEntries} |-> YieldOf(files)]

SelectedIn(e) == Yields[e.files].selected
PairOf(e) == Yields[e.files].pair

\* The entry is a subdirectory that yields a valid metric pair.
YieldsPair(e) ==
    /\ e.isdir
    /\ SelectedIn(e) # None
    /\ PairOf(e).val_auroc # NoneNum
    /\ PairOf(e).test_auroc # NoneNum

\* The entry is a subdirectory that is skipped: it yields no selectable file
\* or no valid metric pair.
Skipped(e) == e.isdir /\ ~YieldsPair(e)

\* The positions of the entries that yield a valid metric pair.
ValidIn(entries) == {k \in 1..Len(entries) : YieldsPair(entries[k])}

\* The FolderResult of a subdirectory that yields a valid metric pair.
FolderResult(e) ==
    [folder |-> e.folder_name, file |-> SelectedIn(e),
     val_auroc |-> PairOf(e).val_auroc, test_auroc |-> PairOf(e).test_auroc]

\* The position of the best folder of the entries (ValidIn(entries) # {}):
\* the first one, in listing order, with the largest val_auroc.
BestIn(entries) ==
    CHOOSE k \in ValidIn(entries) :
        /\ \A j \in ValidIn(entries) :
               PairOf(entries[j]).val_auroc <= PairOf(entries[k]).val_auroc
        /\ \A j \in ValidIn(entries) :
               j < k => PairOf(entries[j]).val_auroc < PairOf(entries[k]).val_auroc

Scanning == pc \in {"scan", "exit"} /\ argv = <<TRUE>>

\* C1: at every step of the scan, the overall best (val, test, folder, file) is
\* the FolderResult of the first folder, among those scanned so far that
\* yielded a valid pair, with the largest val_auroc, and the test value is
\* that folder's own; the OVERALL RESULTS section reports it.
C1_OverallBestIsFirstMaximum ==
    (Scanning /\ ValidIn(listing) # {}) =>
        LET best == FolderResult(listing[BestIn(listing)])
        IN  /\ overall_best_val_auroc = best.val_auroc
            /\ overall_best_test_auroc = best.test_auroc
            /\ best_folder = best.folder
            /\ best_file = best.file
            /\ pc = "exit" =>
                   /\ report.val_auroc = best.val_auroc
                   /\ report.test_auroc = best.test_auroc
                   /\ report.folder = best.folder
                   /\ report.file = best.file

\* Two folders tie on the best val_auroc and the later one has the larger
\* test_auroc: the first is reported, with its own test_auroc.
C1_Witness ==
    /\ pc = "exit"
    /\ Len(listing) = 2
    /\ ValidIn(listing) = {1, 2}
    /\ PairOf(listing[1]).val_auroc = PairOf(listing[2]).val_auroc
    /\ PairOf(listing[1]).test_auroc < PairOf(listing[2]).test_auroc
    /\ report.folder = 1
    /\ report.test_auroc = PairOf(listing[1]).test_auroc

\* C3: when no subdirectory of the root yields a valid metric pair, eval.py
\* reports "No valid results found." and no number, and eval_mult.py's
\* analyze_directory returns None for the best val and the best test; -inf is
\* never reported.
C3_NoResultsIsNotANumber ==
    /\ (pc = "exit" /\ argv = <<TRUE>> /\ ValidIn(listing) = {}) =>
           /\ report = [text |-> "No valid results found."]
           /\ analyze_directory_return.best_val = NoneNum
           /\ analyze_directory_return.best_test = NoneNum
    /\ (pc = "exit" /\ argv = <<TRUE>> /\ ValidIn(listing) # {}) =>
           /\ report.val_auroc # NegInf
           /\ analyze_directory_return.best_val # NegInf

\* A root with a plain file and a skipped subdirectory, and nothing else.
C3_Witness ==
    /\ pc = "exit"
    /\ Len(listing) = 2
    /\ \E k \in 1..2 : ~listing[k].isdir
    /\ \E k \in 1..2 : Skipped(listing[k])
    /\ report = [text |-> "No valid results found."]

\* The listing without its skipped subdirectories.
WithoutSkipped(entries) == SelectSeq(entries, LAMBDA e : ~Skipped(e))

\* C6: a subdirectory that yields no selectable file or no valid metric pair
\* is skipped with a warning: at every step of the scan, and when it is over,
\* the results and the running best are those of the scan of the same root
\* without its skipped subdirectories, and a line was printed for each skipped
\* subdirectory (naming the file when one was selected).
C6_SkippedFoldersChangeNothing ==
    Scanning =>
        LET same == scan(WithoutSkipped(listing))
        IN  /\ results = same.results
            /\ overall_best_val_auroc = same.overall_best_val_auroc
            /\ overall_best_test_auroc = same.overall_best_test_auroc
            /\ best_folder = same.best_folder
            /\ best_file = same.best_file
            /\ \A k \in 1..Len(listing) :
                   Skipped(listing[k]) =>
                       \E n \in 1..Len(stdout) :
                           /\ stdout[n].folder = listing[k].folder_name
                           /\ stdout[n].file = SelectedIn(listing[k])
            /\ pc = "exit" => exit_status = 0

\* A folder with only an "info" table is scanned before a folder that yields
\* a pair: the scan went on and reports the second folder.
C6_Witness ==
    /\ pc = "exit"
    /\ Len(listing) = 2
    /\ listing[1].isdir /\ SelectedIn(listing[1]) = None
    /\ listing[1].files # <<>>
    /\ YieldsPair(listing[2])
    /\ Len(results) = 1
    /\ report.folder = 2

\* C8 as stated, for eval.py: the process exits with a non-zero status if no
\* argument is supplied or no valid (existing) directory is found.
C8_AsStated ==
    (pc = "exit" /\ (argv = <<>> \/ \A k \in 1..Len(argv) : ~argv[k])) =>
        exit_status # 0

----------------------------------------------------------------------------
(* Claims about analyze_multiple_directories (under SpecMulti).            *)

\* analyze_multiple_directories has returned.
Returned == pc \in {"exit", "returned"} /\ final # None

\* The FolderResults of a root, in scan order: one for each subdirectory that
\* yields a valid metric pair.
RECURSIVE FolderResultsOf(_)
FolderResultsOf(entries) ==
    IF entries = <<>> THEN <<>>
    ELSE LET e == entries[Len(entries)]
             before == FolderResultsOf(SubSeq(entries, 1, Len(entries) - 1))
         IN  IF YieldsPair(e) THEN Append(before, FolderResult(e)) ELSE before

\* The listings a root of eval_mult.py's runs can have.
MultiListings ==
    {[k \in 1..Len(l) |-> Named(l[k], k)] : l \in SeqsUpTo(MultiEntries, MaxEntries)}

\* For each of them: whether a subdirectory yields a valid metric pair, the
\* best FolderResult if one does, and the FolderResults in scan order.
Summaries ==
    [entries \in MultiListings |->
        [absent |-> ValidIn(entries) = {},
         best |-> IF ValidIn(entries) = {} THEN None
                  ELSE FolderResult(entries[BestIn(entries)]),
         results |-> FolderResultsOf(entries)]]

\* The analysed roots whose summary is not absent: the root exists and one of
\* its subdirectories yields a valid metric pair.
NonAbsent ==
    {k \in 1..Len(returned) :
        returned[k].root.exists /\ ~Summaries[returned[k].root.entries].absent}

\* The best FolderResult of the k-th analysed root (k \in NonAbsent).
RootBest(k) == Summaries[returned[k].root.entries].best

\* The sum of f[k] over the k of S.
RECURSIVE SumOver(_, _)
SumOver(f, S) ==
    IF S = {} THEN 0
    ELSE LET k == CHOOSE x \in S : TRUE
         IN  f[k] + SumOver(f, S \ {k})

Smallest(S) == CHOOSE x \in S : \A y \in S : x <= y
Largest(S) == CHOOSE x \in S : \A y \in S : y <= x

\* C4: when at least one root produces a non-absent summary, the averages
\* returned are the means of the per-root best val_auroc and of the per-root
\* paired test_auroc over exactly the roots with a non-absent summary (the
\* divisor is their number), and the reported min and max are those of the
\* same per-root values.
C4_AveragesOverValidRoots ==
    (Returned /\ NonAbsent # {}) =>
        LET vals == [k \in NonAbsent |-> RootBest(k).val_auroc]
            tests == [k \in NonAbsent |-> RootBest(k).test_auroc]
            n == Cardinality(NonAbsent)
        IN  /\ final.avg_val # None /\ final.avg_test # None
            /\ SameFraction(final.avg_val, TrueDiv(SumOver(vals, NonAbsent), n))
            /\ SameFraction(final.avg_test, TrueDiv(SumOver(tests, NonAbsent), n))
            /\ final.avg_val.den # 0 /\ final.avg_test.den # 0
            /\ report.valid = n
            /\ report.val_min = Smallest({vals[k] : k \in NonAbsent})
            /\ report.val_max = Largest({vals[k] : k \in NonAbsent})
            /\ report.test_min = Smallest({tests[k] : k \in NonAbsent})
            /\ report.test_max = Largest({tests[k] : k \in NonAbsent})

\* Two roots are supplied, the first is missing or yields nothing and the
\* second has a best folder that does not hold the root's largest test_auroc.
C4_Witness ==
    /\ Returned
    /\ Len(directory_list) = 2
    /\ NonAbsent = {2}
    /\ final.avg_val = TrueDiv(RootBest(2).val_auroc, 1)
    /\ Len(returned[2].results) = 2
    /\ \E r \in 1..2 : returned[2].results[r].test_auroc > RootBest(2).test_auroc

\* C5: when no supplied root produces a valid result (an empty list of roots
\* included), analyze_multiple_directories reports "no results" and returns
\* (None, None, []): no number stands for the averages.
C5_NoResultsNoAverage ==
    (Returned /\ NonAbsent = {}) =>
        /\ final = [avg_val |-> None, avg_test |-> None, all_results |-> <<>>]
        /\ report = [text |-> "No valid results found in any directory."]
        /\ individual = <<>>

\* Two roots, one missing and one whose only subdirectory is skipped.
C5_Witness ==
    /\ Returned
    /\ Len(returned) = 2
    /\ \E k \in 1..2 : ~returned[k].root.exists
    /\ \E k \in 1..2 : /\ returned[k].root.exists
                       /\ Len(returned[k].root.entries) = 1
    /\ final.avg_val = None

\* The concatenation of the FolderResults of the first n analysed roots.
RECURSIVE ConcatenatedResults(_)
ConcatenatedResults(n) ==
    IF n = 0 THEN <<>>
    ELSE ConcatenatedResults(n - 1) \o Summaries[returned[n].root.entries].results

\* C9: all_results is, while the roots are analysed, the concatenation in the
\* order supplied of the folder results of the roots analysed so far, one
\* FolderResult for each subdirectory that yielded a valid pair, in scan
\* order; the list returned is that of all the roots.
C9_ResultsAreConcatenated ==
    /\ pc \in {"loop", "scan", "exit", "returned"} =>
           all_results = ConcatenatedResults(Len(returned))
    /\ Returned =>
           /\ Len(returned) = Len(directory_list)
           /\ final.all_results = ConcatenatedResults(Len(returned))

\* Two roots: one with a skipped subdirectory before its folder result, one
\* with two folder results.
C9_Witness ==
    /\ Returned
    /\ Len(returned) = 2
    /\ Len(returned[1].root.entries) = 2
    /\ Skipped(returned[1].root.entries[1])
    /\ Len(returned[1].results) = 1
    /\ Len(returned[2].results) = 2
    /\ Len(final.all_results) = 3
    /\ final.all_results[1].file # final.all_results[2].file

\* C10 as stated, for a run of the script: every line of "Individual
\* directory results" pairs a root with the best val_auroc and paired
\* test_auroc computed from that root, and every root with a valid result gets
\* exactly one line.
C10_AsStated ==
    (Returned /\ caller = "main" /\ NonAbsent # {}) =>
        /\ \A n \in 1..Len(individual) :
               \E k \in NonAbsent :
                   /\ directory_list[k] = individual[n].directory
                   /\ individual[n].val_auroc = RootBest(k).val_auroc
                   /\ individual[n].test_auroc = RootBest(k).test_auroc
        /\ \A k \in NonAbsent :
               Cardinality({n \in 1..Len(individual) :
                               individual[n].directory = directory_list[k]}) = 1

\* The half of C8 about eval_mult.py: run as a script, it exits with status 1
\* when no argument is supplied or no supplied path exists; otherwise the
\* missing paths are left out and every other path is analysed, in the order
\* supplied, and the exit status is 0.
C8_MultiRootHalf ==
    (pc = "exit" /\ caller = "main") =>
        IF argv = <<>> \/ \A k \in 1..Len(argv) : ~argv[k]
        THEN exit_status = 1 /\ returned = <<>>
        ELSE /\ exit_status = 0
             /\ directory_list = SelectSeq([k \in 1..Len(argv) |-> k],
                                           LAMBDA k : argv[k])
             /\ Len(returned) = Len(directory_list)
             /\ \A k \in 1..Len(returned) : returned[k].root.exists

=============================================================================
